---- MODULE Spec2Model ----
(***************************************************************************)
(* A model of src/psd_layer_processor.py: PSDProcessor.process and the     *)
(* operations it calls (load_psd, _validate_psd_structure,                 *)
(* _get_layer_colors, _validate_color_pairs, generate_variants,            *)
(* _render_layer_combination_fixed, _set_layer_visibility_fixed,           *)
(* _validate_visibility_settings, _check_duplicate_variants).              *)
(*                                                                         *)
(* Names are sequences of one-character strings, so that str.lower() and   *)
(* str.strip() are computed and not assumed.  A layer is identified by its *)
(* path: the sequence of child positions from the root (<<2, 1>> is the    *)
(* first child of the second top-level layer).                             *)
(***************************************************************************)
EXTENDS Integers, Sequences, FiniteSets, TLC

\* ------------------------------------------------------------------ bounds
\* The largest number of immediate children drawn for the 'camera' group.
MaxChildren == 2

\* ------------------------------------------------------------- characters
\* Python's `x in list`.
InSeq(x, s) == \E i \in DOMAIN s : s[i] = x

\* The elements of a list.
Range(s) == {s[i] : i \in DOMAIN s}

UpperAlpha == <<"A","B","C","D","E","F","G","H","I","J","K","L","M",
                "N","O","P","Q","R","S","T","U","V","W","X","Y","Z">>
LowerAlpha == <<"a","b","c","d","e","f","g","h","i","j","k","l","m",
                "n","o","p","q","r","s","t","u","v","w","x","y","z">>

\* The characters of the names of this model.
Characters ==
    Range(UpperAlpha) \cup Range(LowerAlpha) \cup {" ", "\t", "\n", "@", "-", "_", ".", "1"}

\* str.lower() on one character: an upper-case letter becomes the lower-case
\* letter at the same place of the alphabet, any other character stays.
LowerTable ==
    [c \in Characters |->
        IF \E i \in DOMAIN UpperAlpha : UpperAlpha[i] = c
        THEN LowerAlpha[CHOOSE i \in DOMAIN UpperAlpha : UpperAlpha[i] = c]
        ELSE c]

LowerChar(c) == LowerTable[c]

\* str.lower()
Lower(s) == [i \in DOMAIN s |-> LowerChar(s[i])]

\* The characters str.strip() removes.
IsSpace(c) == c \in {" ", "\t", "\n"}

RECURSIVE LStrip(_)
LStrip(s) == IF s # <<>> /\ IsSpace(Head(s)) THEN LStrip(Tail(s)) ELSE s

RECURSIVE RStrip(_)
RStrip(s) ==
    IF s # <<>> /\ IsSpace(s[Len(s)]) THEN RStrip(SubSeq(s, 1, Len(s) - 1)) ELSE s

\* str.strip()
Strip(s) == RStrip(LStrip(s))

\* layer.name.lower().strip()
LowerStrip(s) == Strip(Lower(s))

\* Python's `sub in s` on strings.
Contains(s, sub) ==
    \E i \in 0..(Len(s) - Len(sub)) : SubSeq(s, i + 1, i + Len(sub)) = sub

\* ------------------------------------------------------------------ names
N_main   == <<"@","m","a","i","n">>
N_camera == <<"c","a","m","e","r","a">>
N_colors == <<"c","o","l","o","r","s">>
N_base   == <<"b","a","s","e">>
N_bg     == <<"b","g">>
N_metalware == <<"m","e","t","a","l","w","a","r","e">>
\* PSDImage.name, the name of the parent of the top-level layers.
N_Root   == <<"R","o","o","t">>
N_root   == <<"r","o","o","t">>

\* self.required_groups
required_groups == <<N_main, N_camera, N_colors, N_base, N_bg>>

\* The groups _set_layer_visibility_fixed always shows.
container_groups == <<N_bg, N_base, N_colors, N_camera, N_main>>

\* The groups colors are collected from.
color_groups == <<N_camera, N_colors, N_base>>

\* Names used by the documents below.
N_red    == <<"r","e","d">>
N_RedPad == <<"R","e","d"," ">>
N_blue   == <<"b","l","u","e">>
N_BLUE   == <<"B","L","U","E">>
N_green  == <<"g","r","e","e","n">>
N_blank  == <<" ">>
N_empty  == <<>>
N_fill   == <<"f","i","l","l">>
N_sub    == <<"s","u","b">>
N_detail == <<"d","e","t","a","i","l">>
N_steel  == <<"s","t","e","e","l">>
N_Metal  == <<"M","e","t","a","l","w","a","r","e"," ","1">>
N_shadow == <<"s","h","a","d","o","w">>
N_CamPad == <<"C","a","m","e","r","a"," ">>
N_paper  == <<"p","a","p","e","r">>

\* self.psd_path.stem
base_filename == <<"p","s","d">>

\* The tail of an output file name: "-metalware_1.jpg".
FileSuffix == <<"-","m","e","t","a","l","w","a","r","e","_","1",".","j","p","g">>

\* f"{base_filename}-{color}-metalware_1.jpg"
OutputFilename(color) == base_filename \o <<"-">> \o color \o FileSuffix

\* -------------------------------------------------------------- documents
\* A document description: a tree of layers, each a pixel layer or a group.
Px(name) == [name |-> name, kind |-> "pixel", kids |-> <<>>]
Grp(name, kids) == [name |-> name, kind |-> "group", kids |-> kids]

\* The layers of a tree as <<path, name, kind>> triples.
RECURSIVE Nodes(_, _)
Nodes(prefix, kids) ==
    UNION { {<<prefix \o <<k>>, kids[k].name, kids[k].kind>>}
            \cup Nodes(prefix \o <<k>>, kids[k].kids) : k \in DOMAIN kids }

\* The parsed layer tree: path -> [name, kind].
TreeOf(tops) ==
    LET ns == Nodes(<<>>, tops)
    IN  [p \in {n[1] : n \in ns} |->
            LET n == CHOOSE m \in ns : m[1] = p
            IN  [name |-> n[2], kind |-> n[3]]]

\* All lists over S of length at most n.
RECURSIVE ListsUpTo(_, _)
ListsUpTo(S, n) ==
    IF n = 0 THEN {<<>>}
    ELSE LET shorter == ListsUpTo(S, n - 1)
         IN  shorter \cup {Append(l, x) : l \in shorter, x \in S}

\* ---------------------------------------------------- Layer Tree Accessor
\* layer.parent, as a path (<<>> is the document itself).
Parent(p) == SubSeq(p, 1, Len(p) - 1)

\* The immediate children of the layer (or document) at path p, in order.
ChildrenOf(t, p) ==
    LET n == Cardinality({q \in DOMAIN t : Len(q) = Len(p) + 1 /\ Parent(q) = p})
    IN  [k \in 1..n |-> p \o <<k>>]

\* isinstance(layer, Group)
IsGroup(t, p) == t[p].kind = "group"

\* The value _get_group_by_name returns when no group matches.
NoGroup == <<>>

\* _get_group_by_name: the first top-level group with exactly this name.
GetGroupByName(t, group_name) ==
    LET tops == ChildrenOf(t, <<>>)
        hits == {k \in DOMAIN tops : IsGroup(t, tops[k]) /\ t[tops[k]].name = group_name}
    IN  IF hits = {} THEN NoGroup
        ELSE tops[CHOOSE k \in hits : \A j \in hits : k <= j]

\* The loop of _get_layer_colors over the first n children of a group.
RECURSIVE CollectColors(_, _, _)
CollectColors(t, kids, n) ==
    IF n = 0 THEN <<>>
    ELSE LET colors == CollectColors(t, kids, n - 1)
             name == t[kids[n]].name
             color_name == Strip(Lower(name))
         IN  IF name # <<>> /\ color_name # <<>> /\ ~InSeq(color_name, colors)
             THEN Append(colors, color_name)
             ELSE colors

\* _get_layer_colors without the test that skips empty and repeated names.
GetLayerColorsMissingDedup(t, group_name) ==
    LET group == GetGroupByName(t, group_name)
    IN  IF group = NoGroup THEN <<>>
        ELSE LET kids == ChildrenOf(t, group)
             IN  [k \in DOMAIN kids |-> Strip(Lower(t[kids[k]].name))]

\* _get_layer_colors
GetLayerColors(t, group_name) ==
    LET group == GetGroupByName(t, group_name)
        kids == ChildrenOf(t, group)
    IN  IF group = NoGroup \/ kids = <<>> THEN <<>>
        ELSE CollectColors(t, kids, Len(kids))

\* The elements of s that satisfy keep, in order.
RECURSIVE FilterSeq(_, _)
FilterSeq(s, keep) ==
    IF s = <<>> THEN <<>>
    ELSE LET rest == FilterSeq(SubSeq(s, 1, Len(s) - 1), keep)
             x == s[Len(s)]
         IN  IF x \in keep THEN Append(rest, x) ELSE rest

\* The colors of 'camera' without the test against 'colors' and 'base'.
ValidColorNamesCameraOnly(t) == GetLayerColors(t, N_camera)

\* _validate_color_pairs followed by the comprehension of generate_variants:
\* the colors of 'camera', in order, that are also in 'colors' and 'base'.
ValidColorNames(t) ==
    LET camera_colors == GetLayerColors(t, N_camera)
        colors_group_colors == GetLayerColors(t, N_colors)
        base_colors == GetLayerColors(t, N_base)
    IN  FilterSeq(camera_colors,
                  {c \in Range(camera_colors) :
                      InSeq(c, colors_group_colors) /\ InSeq(c, base_colors)})

\* ---------------------------------------------------- Structure Validator
\* The names of the top-level groups (group_names).
GroupNames(t) ==
    LET tops == ChildrenOf(t, <<>>)
    IN  {t[tops[k]].name : k \in {j \in DOMAIN tops : IsGroup(t, tops[j])}}

\* _validate_psd_structure with 'bg' left out of the required groups.
ValidatePsdStructureSkipsBg(t) ==
    \A i \in DOMAIN required_groups :
        required_groups[i] = N_bg \/ required_groups[i] \in GroupNames(t)

\* _validate_psd_structure: every required name is the name of a top-level group.
ValidatePsdStructure(t) ==
    \A i \in DOMAIN required_groups : required_groups[i] \in GroupNames(t)

\* The "@main group should contain metalware layer" warning.
MetalwareWarning(t) ==
    LET main_group == GetGroupByName(t, N_main)
    IN  /\ ValidatePsdStructure(t)
        /\ main_group # NoGroup
        /\ ChildrenOf(t, main_group) # <<>>
        /\ ~\E k \in DOMAIN ChildrenOf(t, main_group) :
              Contains(Lower(t[ChildrenOf(t, main_group)[k]].name), N_metalware)

\* ---------------------------------------------------- Visibility Resolver
\* all_colors: the colors of 'camera', 'colors' and 'base' together.
AllColors(t) ==
    UNION {Range(GetLayerColors(t, color_groups[i])) : i \in DOMAIN color_groups}

\* parent_name: layer.parent.name.lower(); the parent of a top-level layer is the
\* document, whose name is 'Root'.
ParentName(t, p) ==
    IF Len(p) = 1 THEN Lower(N_Root) ELSE Lower(t[Parent(p)].name)

\* Step 1: the container groups at top level are shown.
ShowContainers(t, vis) ==
    [p \in DOMAIN t |->
        IF Len(p) = 1 /\ IsGroup(t, p) /\ InSeq(Strip(Lower(t[p].name)), container_groups)
        THEN TRUE
        ELSE vis[p]]

\* Step 2 without the branches that hide the layers of the other colors.
LayerVisibilityNeverHides(t, p, target_color, all_colors) ==
    LET parent_name == ParentName(t, p)
        target == Lower(target_color)
    IN  IF parent_name \in all_colors \ {N_bg, N_base, N_colors, N_camera, N_main}
        THEN parent_name = target
        ELSE TRUE

\* Step 2 with the test for a parent that is a color ahead of the tests for the
\* fixed parent names.
LayerVisibilityColorFirst(t, p, target_color, all_colors) ==
    LET layer_name == Strip(Lower(t[p].name))
        parent_name == ParentName(t, p)
        target == Lower(target_color)
    IN  IF parent_name \in all_colors THEN parent_name = target
        ELSE IF parent_name = N_bg THEN TRUE
        ELSE IF parent_name \in {N_base, N_colors, N_camera}
             THEN (IF layer_name = target THEN TRUE
                   ELSE IF layer_name \in all_colors THEN FALSE
                   ELSE TRUE)
        ELSE IF parent_name = N_main
             THEN (IF layer_name \in all_colors THEN layer_name = target ELSE TRUE)
        ELSE TRUE

\* Step 2, for one layer: the flag the chain of parent-name tests assigns.
LayerVisibility(t, p, target_color, all_colors) ==
    LET layer_name == Strip(Lower(t[p].name))
        parent_name == ParentName(t, p)
        target == Lower(target_color)
    IN  IF parent_name = N_bg THEN TRUE
        ELSE IF parent_name \in {N_base, N_colors, N_camera}
             THEN (IF layer_name = target THEN TRUE
                   ELSE IF layer_name \in all_colors THEN FALSE
                   ELSE TRUE)
        ELSE IF parent_name = N_main
             THEN (IF layer_name \in all_colors THEN layer_name = target ELSE TRUE)
        ELSE IF parent_name \in all_colors THEN parent_name = target
        ELSE TRUE

\* _set_layer_visibility_fixed: step 1, then step 2 on every descendant.
SetLayerVisibilityFixed(t, vis, target_color) ==
    LET all_colors == AllColors(t)
        shown == ShowContainers(t, vis)
    IN  [p \in DOMAIN shown |-> LayerVisibility(t, p, target_color, all_colors)]

\* _validate_visibility_settings: the two counters.
TargetColorLayersVisible(t, vis, target_color) ==
    LET all_colors == AllColors(t)
        target == Lower(target_color)
    IN  {p \in DOMAIN t :
            LET layer_name == Strip(Lower(t[p].name))
                parent_name == ParentName(t, p)
            IN  /\ vis[p]
                /\ IF parent_name \in {N_colors, N_camera, N_base} /\ layer_name \in all_colors
                   THEN layer_name = target
                   ELSE parent_name \in all_colors /\ parent_name = target}

OtherColorLayersVisible(t, vis, target_color) ==
    LET all_colors == AllColors(t)
        target == Lower(target_color)
    IN  {p \in DOMAIN t :
            LET layer_name == Strip(Lower(t[p].name))
                parent_name == ParentName(t, p)
            IN  /\ vis[p]
                /\ IF parent_name \in {N_colors, N_camera, N_base} /\ layer_name \in all_colors
                   THEN layer_name # target
                   ELSE parent_name \in all_colors /\ parent_name # target}

\* _validate_visibility_settings
ValidateVisibilitySettings(t, vis, target_color) ==
    /\ TargetColorLayersVisible(t, vis, target_color) # {}
    /\ OtherColorLayersVisible(t, vis, target_color) = {}

\* -------------------------------------------------------------- Compositor
\* The proper ancestors of a layer.
Ancestors(p) == {SubSeq(p, 1, n) : n \in 1..(Len(p) - 1)}

\* psd.composite(layer_filter=lambda l: l.visible): the rendering engine draws a
\* pixel layer when the filter accepts it and every group above it.
CompositeLayers(t, vis) ==
    {p \in DOMAIN t : ~IsGroup(t, p) /\ vis[p] /\ \A a \in Ancestors(p) : vis[a]}

\* The manual flatten: every descendant with layer.visible whose topil() is an
\* image (a pixel layer) is pasted.
FlattenLayers(t, vis) ==
    {p \in DOMAIN t : ~IsGroup(t, p) /\ vis[p]}

\* The value of rendered_image when no tier has produced an image.
NoImage == [size |-> <<0, 0>>, by |-> "none", pixels |-> {}, text |-> <<>>]

\* size[0] > 1 and size[1] > 1
Usable(img) == img # NoImage /\ img.size[1] > 1 /\ img.size[2] > 1

\* The width and the height of the debug image.
DebugWidth == 800
DebugHeight == 600

\* The image psd.composite returns.
CompositeImage(t, vis, dims) ==
    [size |-> dims, by |-> "composite", pixels |-> CompositeLayers(t, vis), text |-> <<>>]

\* The image the manual flatten builds on a canvas of the document's size.
FlattenImage(t, vis, dims) ==
    [size |-> dims, by |-> "flatten", pixels |-> FlattenLayers(t, vis), text |-> <<>>]

\* The debug image: a fixed-size canvas carrying the color and the self-check.
DebugImage(color_name, validation_passed) ==
    [size |-> <<DebugWidth, DebugHeight>>, by |-> "debug", pixels |-> {},
     text |-> <<color_name, validation_passed>>]

\* How a tier ended: it raised, or returned a degenerate or a usable image.
TierOutcome(raised, img) ==
    IF raised THEN "raised" ELSE IF Usable(img) THEN "usable" ELSE "degenerate"

\* A tier's image kept whatever its size.
KeepAnySize(img) == img

\* A tier's image if it is usable, else None.
KeepIfUsable(img) == IF Usable(img) THEN img ELSE NoImage

\* --------------------------------------------------------- Variant Verifier
\* variant_image.size[0] <= 1 or variant_image.size[1] <= 1
Degenerate(img) == img.size[1] <= 1 \/ img.size[2] <= 1

\* The variant record with a file name that leaves the color out.
VariantRecordFixedName(color, img) ==
    [filename |-> OutputFilename(<<>>), color |-> color, size |-> img.size,
     image_hash |-> [size |-> img.size, by |-> img.by, pixels |-> img.pixels, text |-> img.text],
     file_hash |-> [size |-> img.size, by |-> img.by, pixels |-> img.pixels, text |-> img.text]]

\* The record generate_variants appends for a saved image; the hashes stand for
\* the bytes they digest.
VariantRecord(color, img) ==
    [filename |-> OutputFilename(color), color |-> color, size |-> img.size,
     image_hash |-> [size |-> img.size, by |-> img.by, pixels |-> img.pixels, text |-> img.text],
     file_hash |-> [size |-> img.size, by |-> img.by, pixels |-> img.pixels, text |-> img.text]]

\* hash_groups: some file hash is shared by more than one variant.
DuplicateDetected(vs) ==
    \E i, j \in DOMAIN vs : i # j /\ vs[i].file_hash = vs[j].file_hash

\* The pixel comparison of the first variant with the variants at positions cmp.
IdenticalDetected(vs, cmp) ==
    \E j \in cmp : vs[j].file_hash.pixels = vs[1].file_hash.pixels
                   /\ vs[j].file_hash.by = vs[1].file_hash.by
                   /\ vs[j].file_hash.text = vs[1].file_hash.text
                   /\ vs[j].file_hash.size = vs[1].file_hash.size

\* process without the test for an empty list.
ProcessResultAlwaysTrue(vs) == [returned |-> TRUE, success |-> TRUE, variants |-> vs]

\* What process returns for the list generate_variants returned.
ProcessResult(vs) ==
    IF vs = <<>>
    THEN [returned |-> TRUE, success |-> FALSE, variants |-> <<>>]
    ELSE [returned |-> TRUE, success |-> TRUE, variants |-> vs]

\* What process returns from its except clause and when load_psd fails.
ProcessFailed == [returned |-> TRUE, success |-> FALSE, variants |-> <<>>]

\* process has not returned.
NoResult == [returned |-> FALSE, success |-> FALSE, variants |-> <<>>]

\* ------------------------------------------------------------------ inputs
\* A child of 'base': a per-color subgroup holding a pixel layer and a nested
\* group with a pixel layer of its own (base/red/fill, base/red/sub/detail).
ColorSubgroup(name) == Grp(name, <<Px(N_fill), Grp(N_sub, <<Px(N_detail)>>)>>)

\* A sequence of pixel layers, of per-color subgroups, of empty groups.
PixelLayers(names) == [i \in DOMAIN names |-> Px(names[i])]
ColorSubgroups(names) == [i \in DOMAIN names |-> ColorSubgroup(names[i])]
EmptyGroups(names) == [i \in DOMAIN names |-> Grp(names[i], <<>>)]

\* The five groups of a document, from the bottom of the stack.
FiveGroups(cam, col, bas, main) ==
    << Grp(N_bg, <<Px(N_paper)>>),
       Grp(N_base, bas),
       Grp(N_colors, col),
       Grp(N_camera, cam),
       Grp(N_main, main) >>

\* The groups of FiveGroups whose name is in present, followed by extras.
TopLayers(present, extras, cam, col, bas, main) ==
    LET five == FiveGroups(cam, col, bas, main)
    IN  FilterSeq(five, {g \in Range(five) : g.name \in present}) \o extras

\* Top-level layers beside the five groups: none; a pixel layer named 'bg'; a
\* group 'Camera ' (case and padding differ from 'camera') with a color layer.
ExtraTops == { <<>>, <<Px(N_bg)>>, <<Grp(N_CamPad, <<Px(N_green)>>)>> }

\* The children of '@main': with and without a metalware layer.
MainChoices == { <<Px(N_Metal), Px(N_red)>>, <<Px(N_steel)>> }

\* Names for the children of 'camera': duplicates after lower/strip, a blank
\* name and an empty name among them.
CameraPool == {N_red, N_RedPad, N_blue, N_blank, N_empty}

\* The children of 'colors' and of 'base'.
ColorsChoices == { <<N_red, N_blue>>, <<N_BLUE>>, <<N_RedPad, N_green, N_red>> }
BaseChoices == { <<N_red, N_blue>>, <<N_blue, N_RedPad, N_red>>, <<N_red>>, <<>> }

\* The document's width and height; a canvas one pixel wide is degenerate.
DocSize == <<4, 3>>
NarrowSize == <<1, 3>>

\* The two-color document of the end-to-end example.
RedBlue == <<N_red, N_blue>>

\* Documents with every combination of the five groups present or missing.
StructureDocs ==
    { [tops |-> TopLayers(present, extras, PixelLayers(RedBlue), PixelLayers(RedBlue),
                          ColorSubgroups(RedBlue), <<Px(N_Metal), Px(N_red)>>),
       size |-> DocSize] :
      present \in SUBSET Range(required_groups), extras \in ExtraTops }

\* Documents with all five groups and varied color layers.
ColorDocs ==
    { [tops |-> TopLayers(Range(required_groups), <<>>, PixelLayers(cam),
                          PixelLayers(col), ColorSubgroups(bas), main),
       size |-> DocSize] :
      cam \in ListsUpTo(CameraPool, MaxChildren), col \in ColorsChoices,
      bas \in BaseChoices, main \in MainChoices }

\* Documents whose color layers are empty groups, so that a render shows the
\* background and the layers of '@main' only.
HollowDocs ==
    { [tops |-> TopLayers(Range(required_groups), <<>>, EmptyGroups(RedBlue),
                          EmptyGroups(RedBlue), EmptyGroups(RedBlue), main),
       size |-> DocSize] :
      main \in {<<>>, <<Px(N_Metal)>>} }

\* A document one pixel wide.
NarrowDocs ==
    { [tops |-> TopLayers(Range(required_groups), <<>>, PixelLayers(RedBlue),
                          PixelLayers(RedBlue), ColorSubgroups(RedBlue), <<Px(N_Metal)>>),
       size |-> NarrowSize] }

\* Names that are color names and fixed names at once: the lower-cased name of
\* the parent of the top-level layers, and the names of two of the five groups.
Namesakes == {N_root, N_bg, N_camera}

\* Documents with the colors 'red' and a namesake in each of the three groups.
NamesakeDocs ==
    { [tops |-> TopLayers(Range(required_groups), <<>>, PixelLayers(<<N_red, x>>),
                          PixelLayers(<<N_red, x>>), ColorSubgroups(<<N_red, x>>),
                          <<Px(N_Metal)>>),
       size |-> DocSize] :
      x \in Namesakes }

\* The layers of one group of the three-color document: 'red' has pixels, 'blue'
\* and 'green' are empty groups, so that their two renders show the same layers.
OneFullTwoHollow == <<Px(N_red), Grp(N_blue, <<>>), Grp(N_green, <<>>)>>

\* A document with three valid colors.
TripleDocs ==
    { [tops |-> TopLayers(Range(required_groups), <<>>, OneFullTwoHollow,
                          OneFullTwoHollow, OneFullTwoHollow, <<Px(N_Metal)>>),
       size |-> DocSize] }

Documents ==
    StructureDocs \cup ColorDocs \cup HollowDocs \cup NarrowDocs \cup NamesakeDocs
        \cup TripleDocs

\* ------------------------------------------------------------------- state
VARIABLES
    tree,               \* the layer tree stored in the file: path -> [name, kind]
    size,               \* the document's <<width, height>>
    stored,             \* the visibility flags stored in the file
    psd,                \* self.psd: "none", "open" or "closed"
    psdVis,             \* the visibility flags of self.psd
    pc,                 \* the position of process
    camera_colors,      \* _validate_color_pairs: the colors of 'camera'
    colors_group_colors,\* _validate_color_pairs: the colors of 'colors'
    base_colors,        \* _validate_color_pairs: the colors of 'base'
    valid_color_names,  \* generate_variants' list of colors
    all_colors,         \* _set_layer_visibility_fixed: the colors of the three groups
    idx,                \* the position of the batch loop in valid_color_names
    copy,               \* the render call's own document: "none", "open", "closed"
    copyVis,            \* the visibility flags of the render call's document
    validation_passed,  \* the self-check's result
    rendered_image,     \* the render call's image
    tiers,              \* the tiers the current render call has run, each with how it ended
    variants,           \* generate_variants' list of variant records
    files,              \* the output directory: a set of [filename, file_hash]
    result,             \* what process returned
    warnings,           \* the warnings and errors logged
    attempted,          \* the colors a render call was made for, in order
    failed              \* the colors whose iteration raised or was skipped

vars == <<tree, size, stored, psd, psdVis, pc, camera_colors, colors_group_colors,
          base_colors, valid_color_names, all_colors, idx, copy, copyVis,
          validation_passed, rendered_image, tiers, variants, files, result, warnings,
          attempted, failed>>

\* The file on disk, which no operation writes.
file == <<tree, size, stored>>

\* The lists _validate_color_pairs collected.
color_lists == <<camera_colors, colors_group_colors, base_colors>>

\* The color of the current iteration of the batch loop.
current_color == valid_color_names[idx]

\* Where the batch loop goes after the iteration at position idx.
AfterIteration == IF idx + 1 > Len(valid_color_names) THEN "duplicates" ELSE "render"

\* An except clause that ends the loop.
AfterExceptionLeavesLoop == "duplicates"

\* Where the batch loop goes when the iteration raised: the except clause logs
\* and continues with the next color.
AfterException == AfterIteration

Init ==
    /\ \E d \in Documents, v \in BOOLEAN :
          /\ tree = TreeOf(d.tops)
          /\ size = d.size
          /\ stored = [p \in DOMAIN TreeOf(d.tops) |-> v]
    /\ psd = "none"
    /\ psdVis = <<>>
    /\ pc = "start"
    /\ camera_colors = <<>>
    /\ colors_group_colors = <<>>
    /\ base_colors = <<>>
    /\ valid_color_names = <<>>
    /\ all_colors = {}
    /\ idx = 0
    /\ copy = "none"
    /\ copyVis = <<>>
    /\ validation_passed = FALSE
    /\ rendered_image = NoImage
    /\ tiers = <<>>
    /\ variants = <<>>
    /\ files = {}
    /\ result = NoResult
    /\ warnings = {}
    /\ attempted = <<>>
    /\ failed = {}

\* ----------------------------------------------------------------- actions
\* load_psd without the structure validation.
LoadPsdReturnsIgnoringStructure(t, opened) == opened

\* What load_psd returns: the file opened and the structure is valid.
LoadPsdReturns(t, opened) == opened /\ ValidatePsdStructure(t)

\* process calls load_psd: PSDImage.open (which may raise), then
\* _validate_psd_structure; process returns (False, []) when load_psd fails.
LoadPsd ==
    /\ pc = "start"
    /\ \E opened \in BOOLEAN :
          /\ psd' = IF opened THEN "open" ELSE "none"
          /\ psdVis' = IF opened THEN stored ELSE <<>>
          /\ warnings' = warnings
                \cup (IF ~opened THEN {"load_failed"} ELSE {})
                \cup (IF opened /\ ~ValidatePsdStructure(tree) THEN {"missing_group"} ELSE {})
                \cup (IF opened /\ MetalwareWarning(tree) THEN {"no_metalware"} ELSE {})
          /\ IF LoadPsdReturns(tree, opened)
             THEN pc' = "generate" /\ result' = result
             ELSE pc' = "done" /\ result' = ProcessFailed
    /\ UNCHANGED <<file, color_lists, all_colors, valid_color_names, idx, copy, copyVis, validation_passed,
                   rendered_image, tiers, variants, files, attempted, failed>>

\* generate_variants up to the batch loop: the valid colors; no valid color
\* returns [] at once.
GenerateVariants ==
    /\ pc = "generate"
    /\ camera_colors' = GetLayerColors(tree, N_camera)
    /\ colors_group_colors' = GetLayerColors(tree, N_colors)
    /\ base_colors' = GetLayerColors(tree, N_base)
    /\ valid_color_names' = ValidColorNames(tree)
    /\ IF ValidColorNames(tree) = <<>>
       THEN /\ pc' = "return"
            /\ idx' = idx
            /\ warnings' = warnings \cup {"no_valid_colors"}
       ELSE /\ pc' = "render"
            /\ idx' = 1
            /\ warnings' = warnings
    /\ UNCHANGED <<file, all_colors, psd, psdVis, copy, copyVis, validation_passed, rendered_image,
                   tiers, variants, files, result, attempted, failed>>

\* The render call opens its own copy of the document; when PSDImage.open
\* raises, the batch loop's except clause goes on with the next color.
RenderOpen ==
    /\ pc = "render"
    /\ attempted' = Append(attempted, current_color)
    /\ rendered_image' = NoImage
    /\ tiers' = <<>>
    /\ \E opened \in BOOLEAN :
          IF opened
          THEN /\ copy' = "open"
               /\ copyVis' = stored
               /\ pc' = "visibility"
               /\ UNCHANGED <<idx, failed>>
          ELSE /\ copy' = "none"
               /\ copyVis' = <<>>
               /\ failed' = failed \cup {current_color}
               /\ idx' = idx + 1
               /\ pc' = AfterException
    /\ UNCHANGED <<file, color_lists, all_colors, psd, psdVis, valid_color_names, validation_passed, variants,
                   files, result, warnings>>

\* The flags of self.psd after a resolver that writes to self.psd.
CallerFlagsSharedWithRender(loaded, resolved) == resolved

\* The flags of self.psd after the resolver ran: the render call hands its own
\* document to the resolver, so they are the flags self.psd had.
CallerFlags(loaded, resolved) == loaded

\* _set_layer_visibility_fixed on the render call's document.
SetVisibility ==
    /\ pc = "visibility"
    /\ all_colors' = AllColors(tree)
    /\ copyVis' = SetLayerVisibilityFixed(tree, copyVis, current_color)
    /\ psdVis' = CallerFlags(psdVis, SetLayerVisibilityFixed(tree, copyVis, current_color))
    /\ pc' = "selfcheck"
    /\ UNCHANGED <<file, color_lists, psd, valid_color_names, idx, copy, validation_passed,
                   rendered_image, tiers, variants, files, result, warnings, attempted,
                   failed>>

\* _validate_visibility_settings: logs, and blocks nothing.
SelfCheck ==
    /\ pc = "selfcheck"
    /\ validation_passed' = ValidateVisibilitySettings(tree, copyVis, current_color)
    /\ warnings' = warnings
          \cup (IF ValidateVisibilitySettings(tree, copyVis, current_color)
                THEN {} ELSE {"visibility_validation_failed"})
    /\ pc' = "composite"
    /\ UNCHANGED <<file, color_lists, all_colors, psd, psdVis, valid_color_names, idx, copy, copyVis,
                   rendered_image, tiers, variants, files, result, attempted, failed>>

\* A render pass that runs the next tier whatever the last one gave.
AfterTierAlwaysFallsBack(img, fallback) == fallback

\* Where the render pass goes after a tier: `if not rendered_image` runs the
\* next tier, an image goes on to the conversion and the return.
AfterTier(img, fallback) == IF img = NoImage THEN fallback ELSE "finish"

\* Tier 1: psd.composite, which may raise; a degenerate image counts as none.
NativeComposite ==
    /\ pc = "composite"
    /\ \E raised \in BOOLEAN :
          /\ tiers' = Append(tiers, <<"composite",
                                      TierOutcome(raised, CompositeImage(tree, copyVis, size))>>)
          /\ rendered_image' = IF raised THEN NoImage
                               ELSE KeepIfUsable(CompositeImage(tree, copyVis, size))
          /\ pc' = AfterTier(IF raised THEN NoImage
                              ELSE KeepIfUsable(CompositeImage(tree, copyVis, size)),
                              "flatten")
    /\ UNCHANGED <<file, color_lists, all_colors, psd, psdVis, valid_color_names, idx, copy, copyVis,
                   validation_passed, variants, files, result, warnings, attempted, failed>>

\* Tier 2: the manual flatten onto a white canvas, which may raise.
ManualFlatten ==
    /\ pc = "flatten"
    /\ \E raised \in BOOLEAN :
          /\ tiers' = Append(tiers, <<"flatten",
                                      TierOutcome(raised, FlattenImage(tree, copyVis, size))>>)
          /\ rendered_image' = IF raised THEN NoImage
                               ELSE KeepIfUsable(FlattenImage(tree, copyVis, size))
          /\ pc' = AfterTier(IF raised THEN NoImage
                              ELSE KeepIfUsable(FlattenImage(tree, copyVis, size)),
                              "debug")
    /\ UNCHANGED <<file, color_lists, all_colors, psd, psdVis, valid_color_names, idx, copy, copyVis,
                   validation_passed, variants, files, result, warnings, attempted, failed>>

\* Tier 3: the debug image is returned; the finally clause closes the copy.
DebugFallback ==
    /\ pc = "debug"
    /\ tiers' = Append(tiers, <<"debug", "usable">>)
    /\ rendered_image' = DebugImage(current_color, validation_passed)
    /\ copy' = "closed"
    /\ pc' = "verify"
    /\ UNCHANGED <<file, color_lists, all_colors, psd, psdVis, valid_color_names, idx, copyVis, validation_passed,
                   variants, files, result, warnings, attempted, failed>>

\* The image of tier 1 or 2 is converted to RGB and returned; when that raises,
\* the exception is re-raised to the batch loop. The finally clause closes the
\* copy either way.
FinishRender ==
    /\ pc = "finish"
    /\ copy' = "closed"
    /\ \E raised \in BOOLEAN :
          IF raised
          THEN /\ rendered_image' = NoImage
               /\ failed' = failed \cup {current_color}
               /\ idx' = idx + 1
               /\ pc' = AfterException
          ELSE /\ pc' = "verify"
               /\ UNCHANGED <<rendered_image, failed, idx>>
    /\ UNCHANGED <<file, color_lists, all_colors, psd, psdVis, valid_color_names, copyVis, validation_passed,
                   tiers, variants, files, result, warnings, attempted>>

\* The batch loop after the render call returned: the dimension check, then the
\* save (which may raise) and the append of the variant record.
VerifyAndSave ==
    /\ pc = "verify"
    /\ \E saved \in BOOLEAN :
          IF Degenerate(rendered_image)
          THEN /\ failed' = failed \cup {current_color}
               /\ warnings' = warnings \cup {"invalid_image_size"}
               /\ pc' = AfterIteration
               /\ UNCHANGED <<variants, files>>
          ELSE IF ~saved
          THEN /\ failed' = failed \cup {current_color}
               /\ pc' = AfterException
               /\ UNCHANGED <<variants, files, warnings>>
          ELSE /\ files' = {f \in files : f.filename # VariantRecord(current_color, rendered_image).filename}
                     \cup {[filename |-> VariantRecord(current_color, rendered_image).filename,
                            file_hash |-> VariantRecord(current_color, rendered_image).file_hash]}
               /\ variants' = Append(variants, VariantRecord(current_color, rendered_image))
               /\ pc' = AfterIteration
               /\ UNCHANGED <<failed, warnings>>
    /\ idx' = idx + 1
    /\ UNCHANGED <<file, color_lists, all_colors, psd, psdVis, valid_color_names, copy,
                   copyVis, validation_passed, rendered_image, tiers, result, attempted>>

\* Whether an exception leaves _check_duplicate_variants: the first variant's
\* file is reopened outside the try block, and only when there are two or more.
DuplicateCheckRaises(vs, base_opened) == Len(vs) > 1 /\ ~base_opened

\* _check_duplicate_variants at the end of generate_variants. Reopening a saved
\* file may raise: for the first variant that leaves generate_variants and
\* process returns (False, []) from its except clause; for another variant the
\* error is logged and the comparison goes on.
CheckDuplicates ==
    /\ pc = "duplicates"
    /\ \E base_opened \in BOOLEAN, reopened \in SUBSET (2..Len(variants)) :
          /\ warnings' = warnings
                \cup (IF DuplicateDetected(variants) THEN {"duplicate_detected"} ELSE {})
                \cup (IF Len(variants) > 1 /\ base_opened
                         /\ IdenticalDetected(variants, reopened)
                      THEN {"visually_identical"} ELSE {})
                \cup (IF Len(variants) > 1 /\ base_opened
                         /\ reopened # 2..Len(variants)
                      THEN {"compare_error"} ELSE {})
          /\ IF DuplicateCheckRaises(variants, base_opened)
             THEN pc' = "done" /\ result' = ProcessFailed
             ELSE pc' = "return" /\ result' = result
    /\ UNCHANGED <<file, color_lists, all_colors, psd, psdVis, valid_color_names, idx, copy, copyVis,
                   validation_passed, rendered_image, tiers, variants, files, attempted,
                   failed>>

\* process returns what generate_variants returned, or (False, []) for no variant.
ProcessReturn ==
    /\ pc = "return"
    /\ result' = ProcessResult(variants)
    /\ warnings' = warnings \cup (IF variants = <<>> THEN {"no_variants"} ELSE {})
    /\ pc' = "done"
    /\ UNCHANGED <<file, color_lists, all_colors, psd, psdVis, valid_color_names, idx, copy, copyVis,
                   validation_passed, rendered_image, tiers, variants, files, attempted,
                   failed>>

\* main calls cleanup after a successful process (it exits before on failure).
Cleanup ==
    /\ pc = "done"
    /\ result.success
    /\ psd' = "closed"
    /\ pc' = "exit"
    /\ UNCHANGED <<file, color_lists, all_colors, psdVis, valid_color_names, idx, copy, copyVis, validation_passed,
                   rendered_image, tiers, variants, files, result, warnings, attempted,
                   failed>>

Next ==
    \/ LoadPsd
    \/ GenerateVariants
    \/ RenderOpen
    \/ SetVisibility
    \/ SelfCheck
    \/ NativeComposite
    \/ ManualFlatten
    \/ DebugFallback
    \/ FinishRender
    \/ VerifyAndSave
    \/ CheckDuplicates
    \/ ProcessReturn
    \/ Cleanup

Spec == Init /\ [][Next]_vars

\* ============================================================== properties
\* Some top-level group of the tree has exactly this name.
HasTopGroup(name) ==
    \E p \in DOMAIN tree : Len(p) = 1 /\ tree[p].kind = "group" /\ tree[p].name = name

\* All five required names are names of top-level groups.
AllFivePresent ==
    \A name \in {N_main, N_camera, N_colors, N_base, N_bg} : HasTopGroup(name)

\* load_psd has opened the file and run the structure validation.
Validated == pc # "start" /\ psd # "none"

\* The structure validation returned false.
Rejected == Validated /\ "missing_group" \in warnings

\* The batch loop of generate_variants has ended (or was never entered because
\* no color is valid).
LoopFinished ==
    /\ Validated
    /\ ~Rejected
    /\ pc \in {"duplicates", "return", "done", "exit"}

\* C1: the structure validation returns false if and only if at least one of
\* '@main', 'camera', 'colors', 'base', 'bg' is not the name of a top-level group,
\* whatever the other layers are; a rejecting validation makes load_psd fail.
C1_ValidateIffAllFivePresent ==
    Validated =>
        /\ Rejected <=> ~AllFivePresent
        /\ Rejected => pc = "done" /\ result = ProcessFailed

\* C1 witness: a document whose only top-level layer named 'bg' is a pixel layer
\* (no group) was rejected.
C1_Witness ==
    /\ Rejected
    /\ \A name \in {N_main, N_camera, N_colors, N_base} : HasTopGroup(name)
    /\ \E p \in DOMAIN tree : Len(p) = 1 /\ tree[p].name = N_bg /\ tree[p].kind = "pixel"

\* C2: when a required top-level group is missing, process returns (false, [])
\* and no render pass is started: no copy of the document is opened, no
\* visibility flag is changed and no output file is written.
C2_MissingGroupAbortsBeforeRendering ==
    ~AllFivePresent =>
        /\ pc \in {"start", "done"}
        /\ result.returned => result = ProcessFailed
        /\ pc = "done" => result.returned
        /\ attempted = <<>>
        /\ copy = "none"
        /\ copyVis = <<>>
        /\ psd # "none" => psdVis = stored
        /\ variants = <<>>
        /\ files = {}

\* C2 witness: the run of a document without 'bg' (and with the other four
\* groups) has ended with (false, []).
C2_Witness ==
    /\ ~HasTopGroup(N_bg)
    /\ \A name \in {N_main, N_camera, N_colors, N_base} : HasTopGroup(name)
    /\ psd = "open"
    /\ pc = "done"
    /\ result = ProcessFailed

\* C3: process reports success only with at least one variant; a failure
\* carries the empty list; a run that produced no variant ends with (false, []).
C3_SuccessOnlyWithVariants ==
    result.returned =>
        /\ result.success => result.variants # <<>> /\ result.variants = variants
        /\ ~result.success => result.variants = <<>>
        /\ variants = <<>> => result = ProcessFailed

\* C3 witness: every valid color was attempted, none gave a variant, no exception
\* reached process, and process returned (false, []).
C3_Witness ==
    /\ result = ProcessFailed
    /\ "no_variants" \in warnings
    /\ attempted # <<>>
    /\ attempted = valid_color_names
    /\ variants = <<>>

\* The colors of a group as the color-name collection gives them.
GroupColors(group_name) == Range(GetLayerColors(tree, group_name))

\* The colors present in 'camera', 'colors' and 'base' alike.
RenderableColors ==
    GroupColors(N_camera) \cap GroupColors(N_colors) \cap GroupColors(N_base)

\* C4: the colors a render is attempted for are exactly the colors in the
\* intersection of 'camera', 'colors' and 'base'; no other color is rendered or
\* appears among the variants.
C4_RenderedColorsAreIntersection ==
    LET renderable == RenderableColors
    IN  /\ Range(attempted) \subseteq renderable
        /\ \A i \in DOMAIN variants : variants[i].color \in renderable
        /\ \A i \in DOMAIN result.variants : result.variants[i].color \in renderable
        /\ LoopFinished => Range(attempted) = renderable

\* C4 witness: a color of 'camera' is missing from 'base', another color is in
\* 'colors' and not in 'camera', and the batch has rendered the rest.
C4_Witness ==
    /\ LoopFinished
    /\ attempted # <<>>
    /\ GroupColors(N_camera) \ GroupColors(N_base) # {}
    /\ GroupColors(N_colors) \ GroupColors(N_camera) # {}

\* The color-named layers inside the 'base', 'colors' and 'camera' groups that a
\* visibility assignment leaves visible.
VisibleColorLayers(vis) ==
    LET colors == AllColors(tree)
        groups == {GetGroupByName(tree, g) : g \in {N_base, N_colors, N_camera}}
    IN  {p \in DOMAIN tree :
            /\ Len(p) = 2
            /\ Parent(p) \in groups
            /\ Strip(Lower(tree[p].name)) \in colors
            /\ vis[p]}

\* The resolver has just run for the current color.
Resolved == pc = "selfcheck"

\* C5: for a validated document and two distinct valid colors, the color-named
\* layers left visible in 'base', 'colors' and 'camera' differ: the set the
\* resolver left for the current color is not the set of any other valid color.
C5_DistinctColorsDistinctVisibleSets ==
    Resolved =>
        \A b \in Range(valid_color_names) \ {current_color} :
            VisibleColorLayers(copyVis)
                # VisibleColorLayers(SetLayerVisibilityFixed(tree, stored, b))

\* C5 witness: the resolver has run for the second of two valid colors.
C5_Witness ==
    /\ Resolved
    /\ idx = 2
    /\ valid_color_names[1] # valid_color_names[2]
    /\ VisibleColorLayers(copyVis) # {}
    /\ VisibleColorLayers(SetLayerVisibilityFixed(tree, stored, valid_color_names[1])) # {}

\* The names of the immediate children of the first top-level group with this
\* name, in order; empty when there is no such group.
ChildNames(group_name) ==
    LET groups == {p \in DOMAIN tree :
                      Len(p) = 1 /\ tree[p].kind = "group" /\ tree[p].name = group_name}
    IN  IF groups = {} THEN <<>>
        ELSE LET g == CHOOSE p \in groups : \A q \in groups : p[1] <= q[1]
                 n == Cardinality({q \in DOMAIN tree : Len(q) = 2 /\ q[1] = g[1]})
             IN  [k \in 1..n |-> tree[g \o <<k>>].name]

\* The position of the first of names that lower-cases and trims to c.
FirstOccurrence(names, c) ==
    CHOOSE k \in DOMAIN names :
        /\ Strip(Lower(names[k])) = c
        /\ \A j \in DOMAIN names : Strip(Lower(names[j])) = c => k <= j

\* No entry of the list is repeated.
NoRepeats(list) == \A i, j \in DOMAIN list : i # j => list[i] # list[j]

\* The list holds the lower-cased, trimmed names in first-occurrence order.
InFirstOccurrenceOrder(list, names) ==
    \A i, j \in DOMAIN list :
        i < j => FirstOccurrence(names, list[i]) < FirstOccurrence(names, list[j])

\* list is the collection of names as claimed: every lower-cased, trimmed name,
\* once, in first-occurrence order.
CollectsAllNames(list, names) ==
    /\ NoRepeats(list)
    /\ Range(list) = {Strip(Lower(names[k])) : k \in DOMAIN names}
    /\ InFirstOccurrenceOrder(list, names)

\* As CollectsAllNames, for the names that are not empty once trimmed.
CollectsNonEmptyNames(list, names) ==
    /\ NoRepeats(list)
    /\ Range(list) = {Strip(Lower(names[k])) : k \in DOMAIN names} \ {<<>>}
    /\ InFirstOccurrenceOrder(list, names)

\* _validate_color_pairs has collected the colors of the three groups.
Collected == Validated /\ ~Rejected /\ pc # "generate"

\* C6 as stated: the collection returns the lower-cased, trimmed names of the
\* immediate children, in first-occurrence order, none repeated.
C6_Original_CollectsEveryChildName ==
    Collected =>
        /\ CollectsAllNames(camera_colors, ChildNames(N_camera))
        /\ CollectsAllNames(colors_group_colors, ChildNames(N_colors))
        /\ CollectsAllNames(base_colors, ChildNames(N_base))

\* C6 amended: the collection returns the non-empty lower-cased, trimmed names of
\* the immediate children, in first-occurrence order, none repeated (a child
\* whose name is empty or blank gives no entry); it returns the empty list for
\* an absent group; a later collection on the same document gives the same
\* colors.
C6_CollectsNonEmptyNamesOnce ==
    /\ Collected =>
          /\ CollectsNonEmptyNames(camera_colors, ChildNames(N_camera))
          /\ CollectsNonEmptyNames(colors_group_colors, ChildNames(N_colors))
          /\ CollectsNonEmptyNames(base_colors, ChildNames(N_base))
    /\ \A name \in {N_main, N_camera, N_colors, N_base, N_bg} :
          ~HasTopGroup(name) => GetLayerColors(tree, name) = <<>>
    /\ all_colors # {} =>
          all_colors = Range(camera_colors) \cup Range(colors_group_colors)
                          \cup Range(base_colors)

\* C6 witness: 'camera' holds two children whose names differ only in case and
\* padding, the collection kept one entry, and the resolver has collected again.
C6_Witness ==
    /\ Collected
    /\ all_colors # {}
    /\ Len(ChildNames(N_camera)) = 2
    /\ ChildNames(N_camera)[1] # ChildNames(N_camera)[2]
    /\ Len(camera_colors) = 1

\* C7: an exception in one color's iteration does not end the batch: when the
\* loop has ended every valid color was attempted, in order, and the variants of
\* the colors that did not fail are all in the list.
C7_FailureDoesNotAbortBatch ==
    /\ pc \in {"duplicates", "return"} =>
          /\ attempted = valid_color_names
          /\ {variants[i].color : i \in DOMAIN variants} = Range(valid_color_names) \ failed
    /\ Range(attempted) \cap failed # {} /\ pc = "render" => idx <= Len(valid_color_names)
    /\ \A i \in DOMAIN variants : variants[i].color \notin failed

\* C7 witness: the first of two colors failed, the second was still rendered and
\* its variant is in the list generate_variants returns.
C7_Witness ==
    /\ pc = "return"
    /\ Len(valid_color_names) = 2
    /\ valid_color_names[1] \in failed
    /\ Len(variants) = 1
    /\ variants[1].color = valid_color_names[2]

\* C8 as stated: a failure in the duplicate check is not fatal; process returns
\* success with every variant that was produced.
C8_VerifierFailureNotFatal ==
    result.returned /\ variants # <<>> =>
        /\ result.success
        /\ result.variants = variants

\* The first occurrence of a color among the children of 'camera'.
CameraPosition(c) == FirstOccurrence(ChildNames(N_camera), c)

\* The state part of C9.
C9_OneVariantPerColor ==
    /\ pc \in {"duplicates", "return"} /\ failed = {} =>
          /\ Len(variants) = Len(valid_color_names)
          /\ \A i \in DOMAIN variants :
                /\ variants[i].color = valid_color_names[i]
                /\ variants[i].filename = base_filename \o <<"-">> \o valid_color_names[i]
                                             \o FileSuffix
                /\ variants[i].size[1] > 1 /\ variants[i].size[2] > 1
          /\ \A i, j \in DOMAIN valid_color_names :
                i < j => CameraPosition(valid_color_names[i]) < CameraPosition(valid_color_names[j])
    /\ \A i, j \in DOMAIN variants : i # j => variants[i].filename # variants[j].filename
    /\ \A i \in DOMAIN variants :
          [filename |-> variants[i].filename, file_hash |-> variants[i].file_hash] \in files
    /\ Cardinality(files) = Len(variants)

\* The step part of C9: the list is only appended to.
C9_AppendOnly ==
    /\ Len(variants') >= Len(variants)
    /\ \A i \in DOMAIN variants : variants'[i] = variants[i]

\* C9: when no per-color step fails there is exactly one variant per valid
\* color, in the order of 'camera', named '<stem>-<color>-metalware_1.jpg', larger
\* than 1x1; the file names of a run are pairwise distinct, no saved file is
\* overwritten, and a variant record does not change once appended.
C9_VariantsPerColorInOrder == []C9_OneVariantPerColor /\ [][C9_AppendOnly]_vars

\* C9 witness: a run without failure has produced the variants of two colors.
C9_Witness ==
    /\ pc = "return"
    /\ failed = {}
    /\ Len(variants) = 2
    /\ variants[1].color = N_red
    /\ variants[2].color = N_blue

\* The layers of the 'bg' group.
BackgroundLayers == {p \in DOMAIN tree : Len(p) = 2 /\ Parent(p) = GetGroupByName(tree, N_bg)}

\* C10: every image a render call returns has both dimensions greater than 1,
\* so the dimension check of the batch loop rejects none; when the document is
\* larger than 1x1 and no tier raised, the image is the rendering engine's, of
\* the document's size, also when the visible layers are the background only.
C10_ReturnedImageNotDegenerate ==
    /\ pc = "verify" =>
          /\ rendered_image # NoImage
          /\ rendered_image.size[1] > 1
          /\ rendered_image.size[2] > 1
    /\ "invalid_image_size" \notin warnings
    /\ pc = "verify" /\ size[1] > 1 /\ size[2] > 1
          /\ (\A i \in DOMAIN tiers : tiers[i][2] # "raised") =>
          /\ rendered_image.by = "composite"
          /\ rendered_image.size = size

\* C10 witness: a render call returned an image of the background alone, drawn
\* by the rendering engine from the visibility the resolver left.
C10_Witness ==
    /\ pc = "verify"
    /\ rendered_image.by = "composite"
    /\ rendered_image.pixels # {}
    /\ rendered_image.pixels \subseteq BackgroundLayers
    /\ rendered_image.pixels = CompositeLayers(tree, copyVis)

\* A render call is under way: its document is open between PSDImage.open and
\* the finally clause.
InRenderCall == pc \in {"visibility", "selfcheck", "composite", "flatten", "debug", "finish"}

\* C11: every document handle opened during a run is closed on every exit path:
\* the copy of a render call is closed when the call has returned an image, the
\* debug image or raised, and the document load_psd opened is closed by the time
\* process has returned, with success or with failure.
C11_HandlesClosedOnEveryExit ==
    /\ ~InRenderCall => copy # "open"
    /\ result.returned => psd # "open"

\* The flags the resolver computes for color b on a fresh copy of the file.
ResolvedFor(b) == SetLayerVisibilityFixed(tree, stored, b)

\* C12: a render call works on its own freshly opened copy and changes no caller
\* state: the flags of the load-time document are those of the file after any
\* number of render calls, the copy starts from the flags of the file, and the
\* flags resolved for a color are those a first render of that color gives,
\* whichever colors were rendered before it.
C12_RenderLeavesCallerState ==
    /\ psd # "none" => psdVis = stored
    /\ pc = "visibility" => copy = "open" /\ copyVis = stored
    /\ pc = "selfcheck" => copyVis = ResolvedFor(current_color)

\* C12 witness: the resolver has run for the second color of a batch, on flags
\* that differ from the file's and from those resolved for the first color, and
\* the load-time document still has the flags of the file.
C12_Witness ==
    /\ pc = "selfcheck"
    /\ idx = 2
    /\ copyVis # stored
    /\ copyVis # ResolvedFor(valid_color_names[1])
    /\ psd = "open"
    /\ psdVis = stored

\* The flag the priority chain gives the layer at path p for a target color:
\* the first rule whose parent name matches decides.
ChainVisible(p, target, colors) ==
    LET own == Strip(Lower(tree[p].name))
        parent == ParentName(tree, p)
    IN  IF parent = <<"b","g">> THEN TRUE
        ELSE IF parent \in {<<"b","a","s","e">>, <<"c","o","l","o","r","s">>,
                            <<"c","a","m","e","r","a">>}
             THEN own = target \/ own \notin colors
        ELSE IF parent = <<"@","m","a","i","n">>
             THEN ~(own \in colors /\ own # target)
        ELSE IF parent \in colors THEN parent = target
        ELSE TRUE

\* C13: the flag the resolver leaves on every layer, for every target color, is
\* the result of the priority chain on the name of the layer's immediate parent
\* (of 'bg': visible; of 'base', 'colors', 'camera': visible iff the own name is
\* the target or no color; of '@main': hidden iff the own name is another color;
\* of a color: visible iff that color is the target; else visible), the first
\* matching rule deciding also when a color has the name of a fixed group.
C13_FlagsFollowPriorityChain ==
    Resolved =>
        LET colors == GroupColors(N_camera) \cup GroupColors(N_colors) \cup GroupColors(N_base)
        IN  \A p \in DOMAIN tree : copyVis[p] = ChainVisible(p, current_color, colors)

\* C13 witness: 'bg' is a color and not the target, and the layer of the 'bg'
\* group is visible by the first rule while the layer of the same name in
\* 'camera' is hidden by the second.
C13_Witness ==
    /\ Resolved
    /\ N_bg \in all_colors
    /\ current_color # N_bg
    /\ \E p \in DOMAIN tree : Len(p) = 2 /\ tree[Parent(p)].name = N_bg /\ copyVis[p]
    /\ \E p \in DOMAIN tree :
          Len(p) = 2 /\ tree[Parent(p)].name = N_camera /\ tree[p].name = N_bg /\ ~copyVis[p]

\* The top-level groups whose lower-cased, trimmed name is one of the five.
CanonicalGroups ==
    {p \in DOMAIN tree :
        /\ Len(p) = 1
        /\ tree[p].kind = "group"
        /\ Strip(Lower(tree[p].name)) \in {N_bg, N_base, N_colors, N_camera, N_main}}

\* C14: after the resolver returns, each of the five canonical top-level groups
\* is visible, for every target color, every prior state of the flags and every
\* set of color names in the document, a color named 'root' included.
C14_FiveGroupsVisible ==
    Resolved => \A p \in CanonicalGroups : copyVis[p]

\* The immediate children of the top-level group with this name that are named
\* after a color and visible under vis.
VisibleColorChildren(group_name, vis) ==
    LET colors == GroupColors(N_camera) \cup GroupColors(N_colors) \cup GroupColors(N_base)
        group == GetGroupByName(tree, group_name)
    IN  {p \in DOMAIN tree :
            /\ Len(p) = 2
            /\ Parent(p) = group
            /\ Strip(Lower(tree[p].name)) \in colors
            /\ vis[p]}

\* C15: after the resolver for a valid target color, in each of 'base', 'colors'
\* and 'camera' exactly one immediate child named after a color is visible, also
\* when the group holds children whose names are equal once lower-cased and
\* trimmed.
C15_ExactlyOneColorChildVisible ==
    Resolved =>
        \A g \in {N_base, N_colors, N_camera} :
            Cardinality(VisibleColorChildren(g, copyVis)) = 1

\* The document with every layer name lower-cased and trimmed.
Normalised(t) == [p \in DOMAIN t |-> [name |-> Strip(Lower(t[p].name)), kind |-> t[p].kind]]

\* C16: name matching in the resolver is case-insensitive and trimmed for every
\* name it compares: the document and the document with all names lower-cased
\* and trimmed (a subgroup 'Red ' becoming 'red') receive the same flags for
\* the same target color.
C16_MatchingIgnoresCaseAndPadding ==
    Resolved => copyVis = SetLayerVisibilityFixed(Normalised(tree), stored, current_color)

\* The tiers in the order of the render pass.
TierOrder == <<"composite", "flatten", "debug">>

\* C17: within one render pass the tiers run in the order native composite,
\* manual flatten, debug image; a tier runs only after every earlier tier raised
\* or gave a degenerate image, so none runs once a tier has given a usable
\* image; the image the pass hands back is the usable image of its last tier;
\* and when both rendering tiers failed the pass ends with the debug image being
\* returned to the batch loop, not with an exception.
C17_TiersInOrder ==
    /\ Len(tiers) <= Len(TierOrder)
    /\ \A i \in DOMAIN tiers :
          /\ tiers[i][1] = TierOrder[i]
          /\ i < Len(tiers) => tiers[i][2] \in {"raised", "degenerate"}
    /\ pc \in {"finish", "verify"} =>
          /\ tiers # <<>>
          /\ tiers[Len(tiers)][2] = "usable"
          /\ rendered_image.by = tiers[Len(tiers)][1]
    /\ pc = "flatten" => Len(tiers) = 1 /\ tiers[1][2] # "usable"
    /\ pc = "debug" => Len(tiers) = 2 /\ tiers[2][2] # "usable"
    /\ Len(tiers) = 3 =>
          /\ rendered_image = DebugImage(attempted[Len(attempted)], validation_passed)
          /\ pc = "verify" => current_color \notin failed

\* C17 witness: the native composite raised, the manual flatten gave a
\* degenerate image, and the render pass returned the debug image.
C17_Witness ==
    /\ pc = "verify"
    /\ tiers = <<(<<"composite", "raised">>), (<<"flatten", "degenerate">>),
                 (<<"debug", "usable">>)>>
    /\ rendered_image.by = "debug"

\* The duplicate check has run or was never due.
AfterDuplicateCheck == pc \in {"return", "done", "exit"}

\* C18: at the end of a batch a duplicate warning is logged if and only if at
\* least two produced variants have the same file hash, whatever their
\* positions; the duplicate check only warns: it removes no variant from the
\* result and does not change the success flag.
C18_DuplicateCheckOnlyWarns ==
    /\ AfterDuplicateCheck =>
          ("duplicate_detected" \in warnings
              <=> \E i, j \in DOMAIN variants :
                     i < j /\ variants[i].file_hash = variants[j].file_hash)
    /\ pc \in {"done", "exit"} /\ variants # <<>> =>
          /\ result.success
          /\ Len(result.variants) = Len(variants)
          /\ \A i \in DOMAIN variants : result.variants[i] = variants[i]

\* The self-check has run for the current color.
SelfChecked == pc \in {"composite", "flatten", "debug", "finish"}

\* C19: the resolver and the visibility self-check agree: for every document
\* that passes validation and every valid target color, the self-check run right
\* after the resolver passes (a target-color layer is visible and no layer it
\* counts for another color is), also when a color has the name of a fixed
\* group such as 'bg', 'camera' or '@main'.
C19_SelfCheckPasses ==
    SelfChecked =>
        /\ validation_passed
        /\ "visibility_validation_failed" \notin warnings

\* The pixel layers the manual flatten pasted.
Painted == rendered_image.pixels

\* C20: hiding a group hides its subtree in the output: every layer the manual
\* flatten paints has all of its ancestors visible; no layer nested at any depth
\* under the subgroup of a non-target color is painted.
C20_FlattenPaintsOnlyShownSubtrees ==
    pc \in {"finish", "verify"} /\ rendered_image.by = "flatten" =>
        \A p \in Painted :
            /\ copyVis[p]
            /\ \A a \in Ancestors(p) : copyVis[a]
====
